---- MODULE Spec2Model ----
(***************************************************************************)
(* Model of the pump.fun auto-sell bot: pump_bot.py (registry, persistence, *)
(* creation scan, decision engine, scheduler loop) and app.py (the status   *)
(* reader that shares the registry lock).                                   *)
(*                                                                          *)
(* Units: time is counted in ticks of the wall clock, values in lamports    *)
(* (1e-9 SOL), balances in raw token units (1e-6 token).                    *)
(***************************************************************************)
EXTENDS Integers, Sequences, FiniteSets, TLC

\* ------------------------------------------------------------------ bounds
MaxTime == 1
MaxTxs == 2
MaxReserve == 5

\* ------------------------------------------------------ program constants
\* pump_bot.py:53-58 (read from the environment; the model runs a
\* configuration with small values, in the model's units).
SELL_DELAY_SECONDS == 1
TAKE_PROFIT_LAMPORTS == 4
SLIPPAGE_PERCENT == 25
TOKEN_DECIMALS == 6
SCAN_LIMIT == 20

\* The mints the wallet may create on chain.
Mints == {"A", "B"}
\* The values of MAX_SELL_RETRIES (pump_bot.py:56) the model is run with.
RetryConfigs == {1, 2}

VARIABLES
    heap,                 \* the dict objects of the process, by identity
    monitored_tokens,     \* pump_bot.monitored_tokens: the object the name is bound to
    lock,                 \* app.state_lock: "free", "bot" or "reader"
    file,                 \* STATE_FILE
    chain,                \* the wallet's transaction history, oldest first
    wallet_mints,         \* the mints the wallet creates in this run
    now,                  \* time.time()
    MAX_SELL_RETRIES,     \* the configured bound (environment)
    save_faults,          \* the failures save_state may still meet in this run
    pc,                   \* position of the bot thread
    loaded_data,          \* load_state: local
    state_to_save,        \* save_state: local
    save_ret,             \* where save_state returns to
    last_tx_check_sig,    \* monitor_and_sell: local (0 is None)
    recent_signatures,    \* monitor_and_sell: local
    new_mints,            \* monitor_and_sell: local
    unexamined,           \* history: fetched signatures whose transaction was not read
    mints_to_process,     \* monitor_and_sell: local
    idx,                  \* position of the for loop in mints_to_process
    token_data_copy,      \* monitor_and_sell: local
    should_save,          \* monitor_and_sell: local
    curve_state,          \* monitor_and_sell: local
    balance_resp,         \* get_token_balance: what the RPC answered
    dev_balance_lamports, \* monitor_and_sell: local
    sell_result,          \* (success, signature) returned by execute_sell
    reader,               \* position of a get_status request
    tokens_snapshot,      \* get_status: local, the "tokens" of the response
    sell_calls,           \* history: invocations of execute_sell per mint
    calls_since_reset     \* history: the same, since the counter was last reset

vars == <<heap, monitored_tokens, lock, file, chain, wallet_mints, now, MAX_SELL_RETRIES,
          save_faults, pc,
          loaded_data, state_to_save, save_ret, last_tx_check_sig,
          recent_signatures, new_mints, unexamined, mints_to_process, idx,
          token_data_copy,
          should_save, curve_state, balance_resp, dev_balance_lamports, sell_result,
          reader,
          tokens_snapshot, sell_calls, calls_since_reset>>

\* --------------------------------------------------------- Python values
\* Every value is a record of one shape, tagged with its Python type.
PyStr(s) == [ty |-> "str", s |-> s, n |-> 0]
PyInt(n) == [ty |-> "int", s |-> "", n |-> n]
PyFloat(n) == [ty |-> "float", s |-> "", n |-> n]
PyNone == [ty |-> "NoneType", s |-> "", n |-> 0]
\* str(Decimal): the decimal text of a value of n lamports.
DecimalStr(n) == [ty |-> "str", s |-> "decimal", n |-> n]

\* A dict is the sequence of its items in insertion order.
Keys(d) == [i \in 1..Len(d) |-> d[i].k]
HasKey(d, k) == \E i \in 1..Len(d) : d[i].k = k
IndexOf(d, k) == CHOOSE i \in 1..Len(d) : d[i].k = k
Get(d, k) == d[IndexOf(d, k)].v
SetItem(d, k, v) ==
    IF HasKey(d, k) THEN [d EXCEPT ![IndexOf(d, k)] = [k |-> k, v |-> v]]
    ELSE Append(d, [k |-> k, v |-> v])

\* The registry the bot works on: the object pump_bot's global name is bound to.
Registry == heap[monitored_tokens]
\* app.py binds its own name to the object that existed at import time.
app_monitored_tokens == "module_dict"

ActiveStatuses == {"monitoring", "sell_failed"}
\* Variant of IsActive: the status check of line 464 is dropped.
IsActive_NoCheck(status) == TRUE
\* line 464: the statuses the decision pass works on.
IsActive(status) == status \in ActiveStatuses
StatusOf(d, m) == Get(d, m).status.s
AttemptsOf(d, m) == Get(d, m).sell_attempts.n

\* ------------------------------------------------------------------ JSON
\* json.dumps(obj, default=str) of one value: the JSON token it is written as.
JsonDumpValue(v) ==
    CASE v.ty = "str" -> [j |-> "string", s |-> v.s, n |-> v.n]
      [] v.ty = "int" -> [j |-> "int", s |-> "", n |-> v.n]
      [] v.ty = "float" -> [j |-> "real", s |-> "", n |-> v.n]
      [] v.ty = "NoneType" -> [j |-> "null", s |-> "", n |-> 0]
      [] OTHER -> [j |-> "string", s |-> v.ty, n |-> v.n]
\* json.loads of one token.
JsonLoadValue(t) ==
    CASE t.j = "string" -> [ty |-> "str", s |-> t.s, n |-> t.n]
      [] t.j = "int" -> [ty |-> "int", s |-> "", n |-> t.n]
      [] t.j = "real" -> [ty |-> "float", s |-> "", n |-> t.n]
      [] OTHER -> [ty |-> "NoneType", s |-> "", n |-> 0]
JsonDumpRecord(r) == [f \in DOMAIN r |-> JsonDumpValue(r[f])]
JsonLoadRecord(o) == [f \in DOMAIN o |-> JsonLoadValue(o[f])]
JsonDumps(d) == [i \in 1..Len(d) |-> [k |-> d[i].k, v |-> JsonDumpRecord(d[i].v)]]
JsonLoads(doc) == [i \in 1..Len(doc) |-> [k |-> doc[i].k, v |-> JsonLoadRecord(doc[i].v)]]
\* json.loads(json.dumps(d, default=str)): the deep copy both readers take.
JsonCopy(d) == JsonLoads(JsonDumps(d))

\* STATE_FILE: absent, text that is not JSON (an empty or truncated file too),
\* JSON that is not an object, a file whose read raises, or a JSON object.
MissingFile == [kind |-> "missing", doc |-> <<>>]
InvalidFile == [kind |-> "invalid", doc |-> <<>>]
NotMappingFile == [kind |-> "not_mapping", doc |-> <<>>]
UnreadableFile == [kind |-> "unreadable", doc |-> <<>>]
MappingFile(doc) == [kind |-> "mapping", doc |-> doc]

\* ------------------------------------------------------------ chain data
\* A transaction is "other" or the creation of a mint by the wallet; the mints
\* the history holds.
Created(c) == {c[i] : i \in 1..Len(c)} \cap Mints

RECURSIVE Descending(_, _)
Descending(hi, count) ==
    IF hi < 1 \/ count = 0 THEN <<>> ELSE <<hi>> \o Descending(hi - 1, count - 1)
\* get_signatures_for_address(limit=20, before=sig): newest first, starting
\* below `before` (from the newest one when before is None).
SignaturesBefore(c, before) ==
    Descending(IF before = 0 THEN Len(c) ELSE before - 1, SCAN_LIMIT)

\* find_dev_created_pump_fun_mints: the distinct mints created in the batch.
FindDevCreatedMints(c, sigs) == {c[sigs[i]] : i \in 1..Len(sigs)} \cap Mints

\* get_bonding_curve_state: price in lamports per whole token.
\* Variant of PriceLamportsPerToken: an empty reserve is taken for a reserve of 1.
PriceLamportsPerToken_ReserveAtLeastOne(cs) ==
    IF cs.vtr > 0 THEN (cs.vsr * 10^6) \div cs.vtr ELSE cs.vsr * 10^6
\* lines 202-209: the price from the decoded reserves.
PriceLamportsPerToken(cs) ==
    IF cs.vtr > 0 THEN (cs.vsr * 10^6) \div cs.vtr ELSE 0
\* The decoded account data of a bonding curve (line 200).
ParsedAccount(t, v, c) ==
    [kind |-> "account", vtr |-> t, vsr |-> v, complete |-> c, price |-> 0]
\* lines 211-219: the dict get_bonding_curve_state returns.
get_bonding_curve_state(parsed_data) ==
    [kind |-> "state", vtr |-> parsed_data.vtr, vsr |-> parsed_data.vsr,
     complete |-> parsed_data.complete, price |-> PriceLamportsPerToken(parsed_data)]
\* lines 491-494: balance in whole tokens times the price of the curve state.
CurrentValue(balance, cs) == (balance * cs.price) \div (10 ^ TOKEN_DECIMALS)
Max(a, b) == IF a >= b THEN a ELSE b
MinSolOutputLamports(value) ==
    Max(0, (value * (100 - SLIPPAGE_PERCENT)) \div 100)

NoCurve == [kind |-> "none", vtr |-> 0, vsr |-> 0, complete |-> FALSE, price |-> 0]
CurveReads ==
    {NoCurve} \cup
    {get_bonding_curve_state(ParsedAccount(t, 1, c)) : t \in {0, 1}, c \in BOOLEAN}
\* get_token_account_balance: an amount, a value without a digit string, an
\* "account does not exist" error or another RPC error.
NoResponse == [kind |-> "none", amount |-> 0]
TokenAccountReads ==
    {[kind |-> k, amount |-> 0] : k \in {"malformed", "not_found", "rpc_error"}}
    \cup {[kind |-> "amount", amount |-> a] : a \in {0, 2, 4}}
\* get_token_balance: the raw amount, 0 or -1.
get_token_balance(resp) ==
    CASE resp.kind = "amount" -> resp.amount
      [] resp.kind \in {"malformed", "not_found"} -> 0
      [] OTHER -> -1
NoResult == [success |-> FALSE, signature |-> FALSE]
SellResults ==
    {[success |-> TRUE, signature |-> TRUE],
     [success |-> FALSE, signature |-> TRUE],
     [success |-> FALSE, signature |-> FALSE]}

NewRecord(m, t) ==
    [bonding_curve |-> PyStr(m), created_at |-> PyFloat(t),
     status |-> PyStr("monitoring"), dev_ata |-> PyStr(m),
     sell_attempts |-> PyInt(0), decimals |-> PyInt(TOKEN_DECIMALS),
     sell_tx |-> PyNone, last_value_sol |-> PyStr("0.0"),
     last_check_time |-> PyFloat(t)]
NoRecord == NewRecord("", 0)

\* A record after a successful sell (lines 546-549).
SoldRecord(m) ==
    [NewRecord(m, 0) EXCEPT !.status = PyStr("sold"), !.sell_attempts = PyInt(1),
                            !.sell_tx = PyStr("signature"),
                            !.last_value_sol = DecimalStr(4)]

\* What a run killed during a submission leaves in STATE_FILE: the attempt was
\* counted and saved (lines 531-538), its result never applied.  With attempts
\* already at the bound this is the state lines 511-516 exist for.
LeftoverRecords(max) ==
    {[NewRecord("A", 0) EXCEPT !.sell_attempts = PyInt(max)]} \cup
    (IF max >= 2
     THEN {[NewRecord("A", 0) EXCEPT !.sell_attempts = PyInt(max),
                                     !.status = PyStr("sell_failed"),
                                     !.sell_tx = PyStr("failed_signature"),
                                     !.last_value_sol = DecimalStr(4)]}
     ELSE {})
\* STATE_FILE when the process starts: absent, or left by an earlier run.
StartFiles(max) ==
    {MissingFile, InvalidFile, NotMappingFile, UnreadableFile} \cup
    {MappingFile(JsonDumps(<<[k |-> "A", v |-> r]>>)) : r \in LeftoverRecords(max)}

\* ------------------------------------------------------------------ Init
Init ==
    /\ heap = [o \in {"module_dict", "loaded_dict"} |-> <<>>]
    /\ monitored_tokens = "module_dict"
    /\ lock = "free"
    /\ MAX_SELL_RETRIES \in RetryConfigs
    /\ save_faults = 0
    /\ file \in StartFiles(MAX_SELL_RETRIES)
    /\ chain = Keys(file.doc)
    /\ wallet_mints = {"A"}
    /\ now = 0
    /\ pc = "load_read"
    /\ loaded_data = <<>>
    /\ state_to_save = <<>>
    /\ save_ret = "none"
    /\ last_tx_check_sig = 0
    /\ recent_signatures = <<>>
    /\ new_mints = {}
    /\ unexamined = {}
    /\ mints_to_process = <<>>
    /\ idx = 1
    /\ token_data_copy = NoRecord
    /\ should_save = FALSE
    /\ curve_state = NoCurve
    /\ balance_resp = NoResponse
    /\ dev_balance_lamports = 0
    /\ sell_result = NoResult
    /\ reader = "idle"
    /\ tokens_snapshot = <<>>
    /\ sell_calls = [m \in Mints |-> 0]
    /\ calls_since_reset = [m \in Mints |-> 0]

\* ---------------------------------------------------------------- frames
envVars == <<file, chain, wallet_mints, now, MAX_SELL_RETRIES, save_faults>>
saveLocals == <<loaded_data, state_to_save, save_ret>>
scanLocals == <<last_tx_check_sig, recent_signatures, new_mints, unexamined>>
iterLocals == <<token_data_copy, should_save, curve_state, balance_resp,
                dev_balance_lamports, sell_result>>
loopLocals == <<mints_to_process, idx>>
readerVars == <<reader, tokens_snapshot>>
objVars == <<heap, monitored_tokens>>
histVars == <<sell_calls, calls_since_reset>>

\* The mint of the current iteration of the for loop.
mint_str == mints_to_process[idx]
\* monitored_tokens[mint_str][field] = value on the bot's registry object.
SetField(h, m, field, value) ==
    [h EXCEPT ![monitored_tokens] =
        SetItem(@, m, [Get(@, m) EXCEPT ![field] = value])]
\* `continue`: the next iteration starts with fresh locals.
Continue ==
    /\ idx' = idx + 1
    /\ pc' = "tok_begin"
    /\ token_data_copy' = NoRecord
    /\ should_save' = FALSE
    /\ curve_state' = NoCurve
    /\ balance_resp' = NoResponse
    /\ dev_balance_lamports' = 0
    /\ sell_result' = NoResult
    /\ UNCHANGED mints_to_process

\* ------------------------------------------------------------ load_state
\* Variant of LoadRead: the file's content is rejected and the run starts fresh.
LoadRead_StartsFresh ==
    /\ pc = "load_read"
    /\ loaded_data' = <<>>
    /\ pc' = "load_assign"
    /\ UNCHANGED <<objVars, lock, envVars, state_to_save, save_ret, scanLocals,
                   loopLocals, iterLocals, readerVars, histVars>>

\* Variant of LoadAssign: the assignment binds a local name, the global is kept.
LoadAssign_BindsLocal ==
    /\ pc = "load_assign"
    /\ lock = "free"
    /\ pc' = "scan"
    /\ UNCHANGED <<objVars, lock, envVars, saveLocals, scanLocals, loopLocals,
                   iterLocals, readerVars, histVars>>

\* lines 117-123, 128-140: the file is read without the lock; every failure
\* and every content that is not an object leads to the empty dict.
LoadRead ==
    /\ pc = "load_read"
    /\ loaded_data' = IF file.kind = "mapping" THEN JsonLoads(file.doc) ELSE <<>>
    /\ pc' = "load_assign"
    /\ UNCHANGED <<objVars, lock, envVars, state_to_save, save_ret, scanLocals,
                   loopLocals, iterLocals, readerVars, histVars>>

\* lines 125-126, 130, 134, 137, 140: `monitored_tokens = ...` under the lock
\* binds pump_bot's global name to another object.
LoadAssign ==
    /\ pc = "load_assign"
    /\ lock = "free"
    /\ heap' = [heap EXCEPT !["loaded_dict"] = loaded_data]
    /\ monitored_tokens' = "loaded_dict"
    /\ pc' = "scan"
    /\ UNCHANGED <<lock, envVars, saveLocals, scanLocals, loopLocals, iterLocals,
                   readerVars, histVars>>

\* line 437: the newest signature of the batch becomes the watermark.
SetWatermark ==
    /\ last_tx_check_sig' = recent_signatures[1]
    /\ recent_signatures' = <<>>
    /\ new_mints' = {}
    /\ pc' = "keys"
    /\ UNCHANGED unexamined

\* ------------------------------------------------------------ save_state
\* Variant of SaveCopy: the file write is moved into the `with lock` block.
SaveCopy_WriteInLock ==
    /\ pc = "save_copy"
    /\ lock = "free"
    /\ lock' = "bot"
    /\ state_to_save' = JsonCopy(Registry)
    /\ pc' = "save_write"
    /\ UNCHANGED <<objVars, envVars, loaded_data, save_ret, scanLocals,
                   loopLocals, iterLocals, readerVars, histVars>>

\* save_state returns to its caller.
SaveReturn ==
    /\ save_ret' = "none"
    /\ CASE save_ret = "next_token" -> Continue /\ UNCHANGED scanLocals
         [] save_ret = "set_watermark" ->
                SetWatermark /\ UNCHANGED <<loopLocals, iterLocals>>
         [] OTHER -> /\ pc' = save_ret
                     /\ UNCHANGED <<scanLocals, loopLocals, iterLocals>>

\* What one execution of a step of save_state may meet.
SaveOutcomes(faulty) == IF save_faults > 0 THEN {"ok"} \cup faulty ELSE {"ok"}

\* lines 100-106: the deep copy is taken under the lock; when json.dumps raises,
\* save_state returns without touching the file.
SaveCopy ==
    /\ pc = "save_copy"
    /\ lock = "free"
    /\ \E outcome \in SaveOutcomes({"dumps_raises"}) :
        IF outcome = "ok"
        THEN /\ state_to_save' = JsonCopy(Registry)
             /\ pc' = "save_write"
             /\ UNCHANGED <<save_faults, save_ret, scanLocals, loopLocals, iterLocals>>
        ELSE /\ save_faults' = save_faults - 1
             /\ SaveReturn
             /\ UNCHANGED state_to_save
    /\ UNCHANGED <<objVars, lock, file, chain, wallet_mints, now, MAX_SELL_RETRIES,
                   loaded_data, readerVars, histVars>>

\* lines 108-114: outside the lock, open(STATE_FILE, "w") truncates the file and
\* json.dump writes it in full.  When open raises the file is as it was; when
\* the write raises after the truncation the file holds a part of the text.
SaveWrite ==
    /\ pc = "save_write"
    /\ \E outcome \in SaveOutcomes({"open_raises", "write_raises"}) :
        /\ file' = CASE outcome = "ok" -> MappingFile(JsonDumps(state_to_save))
                      [] outcome = "open_raises" -> file
                      [] OTHER -> InvalidFile
        /\ save_faults' = IF outcome = "ok" THEN save_faults ELSE save_faults - 1
    /\ state_to_save' = <<>>
    /\ SaveReturn
    /\ UNCHANGED <<objVars, lock, chain, wallet_mints, now, MAX_SELL_RETRIES,
                   loaded_data, readerVars, histVars>>

\* ------------------------------------------------- 1. check for creations
\* lines 406-409, 438-441: the signature fetch; an RPC error skips the scan.
ScanWith(fault) ==
    /\ pc = "scan"
    /\ LET sigs == IF fault THEN <<>> ELSE SignaturesBefore(chain, last_tx_check_sig)
       IN /\ recent_signatures' = sigs
          /\ pc' = IF sigs = <<>> THEN "keys" ELSE "find_mints"
    /\ UNCHANGED <<objVars, lock, envVars, saveLocals, last_tx_check_sig, new_mints,
                   unexamined, loopLocals, iterLocals, readerVars, histVars>>
Scan == \E fault \in BOOLEAN : ScanWith(fault)

\* line 413: the transactions of the batch are fetched and parsed.
\* get_transaction answers for the first `read` signatures of the batch; the
\* exception of a later one leaves the for loop (lines 235-236, 275-278).
FindMintsWith(read) ==
    /\ pc = "find_mints"
    /\ new_mints' = FindDevCreatedMints(chain, SubSeq(recent_signatures, 1, read))
    /\ unexamined' =
          (unexamined \ {recent_signatures[i] : i \in 1..read})
          \cup {recent_signatures[i] : i \in (read + 1)..Len(recent_signatures)}
    /\ pc' = "register"
    /\ UNCHANGED <<objVars, lock, envVars, saveLocals, last_tx_check_sig,
                   recent_signatures, loopLocals, iterLocals, readerVars, histVars>>
FindMints == FindMintsWith(Len(recent_signatures))

\* Variant of AddNew: the membership test of line 418 is dropped.
RECURSIVE AddNew_Overwrite(_, _, _)
AddNew_Overwrite(d, order, t) ==
    IF order = <<>> THEN d
    ELSE AddNew_Overwrite(SetItem(d, Head(order), NewRecord(Head(order), t)),
                          Tail(order), t)

\* The mints of `order` that the registry does not hold yet, appended in order.
RECURSIVE AddNew(_, _, _)
AddNew(d, order, t) ==
    IF order = <<>> THEN d
    ELSE AddNew(IF HasKey(d, Head(order)) THEN d
                ELSE SetItem(d, Head(order), NewRecord(Head(order), t)),
                Tail(order), t)
Orders(S) == {o \in [1..Cardinality(S) -> S] : \A m \in S : \E i \in DOMAIN o : o[i] = m}

\* lines 416-434: registration under the lock; list(set(...)) fixes no order.
Register ==
    /\ pc = "register"
    /\ lock = "free"
    /\ \E order \in Orders(new_mints) :
        LET d == AddNew(Registry, order, now)
        IN /\ heap' = [heap EXCEPT ![monitored_tokens] = d]
           /\ IF Len(d) > Len(Registry)
              THEN /\ pc' = "save_copy"
                   /\ save_ret' = "set_watermark"
                   /\ UNCHANGED scanLocals
              ELSE SetWatermark /\ UNCHANGED save_ret
    /\ UNCHANGED <<monitored_tokens, lock, envVars, loaded_data, state_to_save,
                   loopLocals, iterLocals, readerVars, histVars>>

\* ------------------------------------------------- 2. the decision pass
\* lines 444-446: the keys are listed under the lock.
ListKeys ==
    /\ pc = "keys"
    /\ lock = "free"
    /\ mints_to_process' = Keys(Registry)
    /\ idx' = 1
    /\ pc' = "tok_begin"
    /\ UNCHANGED <<objVars, lock, envVars, saveLocals, scanLocals, iterLocals,
                   readerVars, histVars>>

\* lines 459-464: copy the record, stamp last_check_time, skip inactive ones.
TokBegin ==
    /\ pc = "tok_begin"
    /\ idx <= Len(mints_to_process)
    /\ lock = "free"
    /\ heap' = SetField(heap, mint_str, "last_check_time", PyFloat(now))
    /\ IF IsActive(StatusOf(Registry, mint_str))
       THEN /\ token_data_copy' = Get(Registry, mint_str)
            /\ pc' = "curve"
            /\ UNCHANGED <<loopLocals, should_save, curve_state,
                           balance_resp, dev_balance_lamports, sell_result>>
       ELSE Continue
    /\ UNCHANGED <<monitored_tokens, lock, envVars, saveLocals, scanLocals,
                   readerVars, histVars>>

\* lines 472-481: the curve read; nothing or a complete curve ends the iteration.
CurveFrom(reads) ==
    /\ pc = "curve"
    /\ \E cs \in reads :
        IF cs.kind = "none"
        THEN Continue
        ELSE /\ curve_state' = cs
             /\ pc' = IF cs.complete THEN "mark_missed" ELSE "balance"
             /\ UNCHANGED <<loopLocals, token_data_copy, should_save,
                            balance_resp, dev_balance_lamports, sell_result>>
    /\ UNCHANGED <<objVars, lock, envVars, saveLocals, scanLocals, readerVars,
                   histVars>>
Curve == CurveFrom(CurveReads)

\* Variant of MarkMissed: only a monitoring record is marked.
MarkMissed_OnlyMonitoring ==
    /\ pc = "mark_missed"
    /\ lock = "free"
    /\ heap' = IF StatusOf(Registry, mint_str) = "monitoring"
               THEN SetField(heap, mint_str, "status", PyStr("missed_raydium"))
               ELSE heap
    /\ Continue
    /\ UNCHANGED <<monitored_tokens, lock, envVars, saveLocals, scanLocals,
                   readerVars, histVars>>

\* lines 477-481: missed_raydium under the lock, then `continue`.
MarkMissed ==
    /\ pc = "mark_missed"
    /\ lock = "free"
    /\ heap' = IF StatusOf(Registry, mint_str) \in ActiveStatuses
               THEN SetField(heap, mint_str, "status", PyStr("missed_raydium"))
               ELSE heap
    /\ Continue
    /\ UNCHANGED <<monitored_tokens, lock, envVars, saveLocals, scanLocals,
                   readerVars, histVars>>

\* Variant of Balance: a failed read is taken for an empty account.
Balance_ErrorAsZero ==
    /\ pc = "balance"
    /\ \E resp \in TokenAccountReads :
        LET b == get_token_balance(resp)
        IN /\ balance_resp' = resp
           /\ dev_balance_lamports' = b
           /\ pc' = IF b <= 0 THEN "mark_emptied" ELSE "store_value"
           /\ UNCHANGED <<loopLocals, token_data_copy, should_save, curve_state,
                          sell_result>>
    /\ UNCHANGED <<objVars, lock, envVars, saveLocals, scanLocals, readerVars,
                   histVars>>

\* lines 482-484, 490: the balance read; a negative balance ends the iteration.
BalanceFrom(reads) ==
    /\ pc = "balance"
    /\ \E resp \in reads :
        LET b == get_token_balance(resp)
        IN IF b < 0
           THEN Continue
           ELSE /\ balance_resp' = resp
                /\ dev_balance_lamports' = b
                /\ pc' = IF b = 0 THEN "mark_emptied" ELSE "store_value"
                /\ UNCHANGED <<loopLocals, token_data_copy, should_save, curve_state,
                               sell_result>>
    /\ UNCHANGED <<objVars, lock, envVars, saveLocals, scanLocals, readerVars,
                   histVars>>
Balance == BalanceFrom(TokenAccountReads)

\* lines 486-490: emptied under the lock, then `continue`.
MarkEmptied ==
    /\ pc = "mark_emptied"
    /\ lock = "free"
    /\ heap' = IF StatusOf(Registry, mint_str) \in ActiveStatuses
               THEN SetField(heap, mint_str, "status", PyStr("emptied"))
               ELSE heap
    /\ Continue
    /\ UNCHANGED <<monitored_tokens, lock, envVars, saveLocals, scanLocals,
                   readerVars, histVars>>

\* Variant of Decide: the bound check of lines 511-516 is dropped.
Decide_NoBound(copy, value, t) ==
    LET sell_signal == (t - copy.created_at.n >= SELL_DELAY_SECONDS)
                        \/ (value >= TAKE_PROFIT_LAMPORTS)
    IN IF sell_signal
       THEN IF MinSolOutputLamports(value) <= 0
            THEN IF copy.status.s = "sell_failed" THEN "reset_minout" ELSE "next"
            ELSE "incr_attempt"
       ELSE IF copy.status.s = "sell_failed" THEN "reset" ELSE "next"

\* Variant of Decide: the test of the minimum output (line 520) is dropped.
Decide_NoMinOutCheck(copy, value, t) ==
    LET sell_signal == (t - copy.created_at.n >= SELL_DELAY_SECONDS)
                        \/ (value >= TAKE_PROFIT_LAMPORTS)
    IN IF sell_signal
       THEN IF copy.sell_attempts.n >= MAX_SELL_RETRIES THEN "mark_failed_max"
            ELSE "incr_attempt"
       ELSE IF copy.status.s = "sell_failed" THEN "reset" ELSE "next"

\* Variant of Decide: the comparison of line 511 is `>` instead of `>=`.
Decide_BoundOffByOne(copy, value, t) ==
    LET sell_signal == (t - copy.created_at.n >= SELL_DELAY_SECONDS)
                        \/ (value >= TAKE_PROFIT_LAMPORTS)
    IN IF sell_signal
       THEN IF copy.sell_attempts.n > MAX_SELL_RETRIES THEN "mark_failed_max"
            ELSE IF MinSolOutputLamports(value) <= 0
                 THEN IF copy.status.s = "sell_failed" THEN "reset_minout" ELSE "next"
                 ELSE "incr_attempt"
       ELSE IF copy.status.s = "sell_failed" THEN "reset" ELSE "next"

\* Variant of Decide: the age is not a trigger, only the value is.
Decide_AgeIgnored(copy, value, t) ==
    LET sell_signal == value >= TAKE_PROFIT_LAMPORTS
    IN IF sell_signal
       THEN IF copy.sell_attempts.n >= MAX_SELL_RETRIES THEN "mark_failed_max"
            ELSE IF MinSolOutputLamports(value) <= 0
                 THEN IF copy.status.s = "sell_failed" THEN "reset_minout" ELSE "next"
                 ELSE "incr_attempt"
       ELSE IF copy.status.s = "sell_failed" THEN "reset" ELSE "next"

\* Variant of Decide: the signal needs the age and the value together.
Decide_AndTriggers(copy, value, t) ==
    LET sell_signal == (t - copy.created_at.n >= SELL_DELAY_SECONDS)
                        /\ (value >= TAKE_PROFIT_LAMPORTS)
    IN IF sell_signal
       THEN IF copy.sell_attempts.n >= MAX_SELL_RETRIES THEN "mark_failed_max"
            ELSE IF MinSolOutputLamports(value) <= 0
                 THEN IF copy.status.s = "sell_failed" THEN "reset_minout" ELSE "next"
                 ELSE "incr_attempt"
       ELSE IF copy.status.s = "sell_failed" THEN "reset" ELSE "next"

\* lines 501-529, 562: what the iteration does after the value is known.
Decide(copy, value, t) ==
    LET sell_signal == (t - copy.created_at.n >= SELL_DELAY_SECONDS)
                        \/ (value >= TAKE_PROFIT_LAMPORTS)
    IN IF sell_signal
       THEN IF copy.sell_attempts.n >= MAX_SELL_RETRIES THEN "mark_failed_max"
            ELSE IF MinSolOutputLamports(value) <= 0
                 THEN IF copy.status.s = "sell_failed" THEN "reset_minout" ELSE "next"
                 ELSE "incr_attempt"
       ELSE IF copy.status.s = "sell_failed" THEN "reset" ELSE "next"

\* lines 491-507: the value is stored under the lock, then the triggers are read.
StoreValue ==
    /\ pc = "store_value"
    /\ lock = "free"
    /\ LET value == CurrentValue(dev_balance_lamports, curve_state)
           step == Decide(token_data_copy, value, now)
       IN /\ heap' = SetField(heap, mint_str, "last_value_sol", DecimalStr(value))
          /\ IF step = "next"
             THEN Continue
             ELSE /\ pc' = step
                  /\ UNCHANGED <<loopLocals, iterLocals>>
    /\ UNCHANGED <<monitored_tokens, lock, envVars, saveLocals, scanLocals,
                   readerVars, histVars>>

\* lines 511-516: the bound is reached; `continue`.
MarkFailedMax ==
    /\ pc = "mark_failed_max"
    /\ lock = "free"
    /\ heap' = IF StatusOf(Registry, mint_str) # "failed_max_retries"
               THEN SetField(heap, mint_str, "status", PyStr("failed_max_retries"))
               ELSE heap
    /\ Continue
    /\ UNCHANGED <<monitored_tokens, lock, envVars, saveLocals, scanLocals,
                   readerVars, histVars>>

\* Variant of ResetRecord: the counter is cleared, the status is left as it is.
ResetRecord_KeepStatus(h, m) ==
    IF StatusOf(h[monitored_tokens], m) = "sell_failed"
    THEN SetField(h, m, "sell_attempts", PyInt(0))
    ELSE h

\* lines 525-527 and 565-567: back to monitoring with a fresh counter.
ResetRecord(h, m) ==
    IF StatusOf(h[monitored_tokens], m) = "sell_failed"
    THEN SetField(SetField(h, m, "status", PyStr("monitoring")),
                  m, "sell_attempts", PyInt(0))
    ELSE h

\* lines 521-529: the minimum output is not positive; `continue`.
ResetMinOut ==
    /\ pc = "reset_minout"
    /\ lock = "free"
    /\ heap' = ResetRecord(heap, mint_str)
    /\ calls_since_reset' = [calls_since_reset EXCEPT ![mint_str] = 0]
    /\ Continue
    /\ UNCHANGED <<monitored_tokens, lock, envVars, saveLocals, scanLocals,
                   readerVars, sell_calls>>

\* lines 562-568: no sell signal for a sell_failed record.
Reset ==
    /\ pc = "reset"
    /\ lock = "free"
    /\ heap' = ResetRecord(heap, mint_str)
    /\ calls_since_reset' = [calls_since_reset EXCEPT ![mint_str] = 0]
    /\ should_save' = TRUE
    /\ pc' = "end_iter"
    /\ UNCHANGED <<monitored_tokens, lock, envVars, saveLocals, scanLocals,
                   loopLocals, token_data_copy, curve_state, balance_resp, dev_balance_lamports,
                   sell_result, readerVars, sell_calls>>

\* Variant of IncrAttempt: the attempt is counted, the save before the
\* submission is left out.
IncrAttempt_NoSave ==
    /\ pc = "incr_attempt"
    /\ lock = "free"
    /\ heap' = SetField(heap, mint_str, "sell_attempts",
                        PyInt(AttemptsOf(Registry, mint_str) + 1))
    /\ pc' = "execute_sell"
    /\ UNCHANGED <<monitored_tokens, lock, envVars, saveLocals,
                   scanLocals, loopLocals, iterLocals, readerVars, histVars>>

\* lines 530-539: the attempt is counted under the lock and saved.
IncrAttempt ==
    /\ pc = "incr_attempt"
    /\ lock = "free"
    /\ heap' = SetField(heap, mint_str, "sell_attempts",
                        PyInt(AttemptsOf(Registry, mint_str) + 1))
    /\ pc' = "save_copy"
    /\ save_ret' = "execute_sell"
    /\ UNCHANGED <<monitored_tokens, lock, envVars, loaded_data, state_to_save,
                   scanLocals, loopLocals, iterLocals, readerVars, histVars>>

\* lines 540-543: the submission and its confirmation wait.
ExecuteSell ==
    /\ pc = "execute_sell"
    /\ \E r \in SellResults : sell_result' = r
    /\ sell_calls' = [sell_calls EXCEPT
                        ![mint_str] = IF @ > MAX_SELL_RETRIES THEN @ ELSE @ + 1]
    /\ calls_since_reset' = [calls_since_reset EXCEPT ![mint_str] = @ + 1]
    /\ pc' = "apply_status"
    /\ UNCHANGED <<objVars, lock, envVars, saveLocals, scanLocals, loopLocals,
                   token_data_copy, should_save, curve_state, balance_resp, dev_balance_lamports,
                   readerVars>>

\* lines 544-547, 552: the lock is taken and the status written.
ApplyStatus ==
    /\ pc = "apply_status"
    /\ lock = "free"
    /\ lock' = "bot"
    /\ heap' = SetField(heap, mint_str, "status",
                        PyStr(IF sell_result.success THEN "sold" ELSE "sell_failed"))
    /\ pc' = "apply_tx"
    /\ UNCHANGED <<monitored_tokens, envVars, saveLocals, scanLocals, loopLocals,
                   iterLocals, readerVars, histVars>>

\* lines 548-549, 553-554: the reference is written; success leaves the block.
ApplyTx ==
    /\ pc = "apply_tx"
    /\ heap' = SetField(heap, mint_str, "sell_tx",
                        PyStr(IF sell_result.success THEN "signature"
                              ELSE IF sell_result.signature THEN "failed_signature"
                              ELSE "failed_no_sig"))
    /\ should_save' = TRUE
    /\ IF sell_result.success
       THEN lock' = "free" /\ pc' = "end_iter"
       ELSE lock' = lock /\ pc' = "apply_escalate"
    /\ UNCHANGED <<monitored_tokens, envVars, saveLocals, scanLocals, loopLocals,
                   token_data_copy, curve_state, balance_resp, dev_balance_lamports, sell_result,
                   readerVars, histVars>>

\* Variant of ApplyEscalate: a failure never escalates in the block.
ApplyEscalate_Never ==
    /\ pc = "apply_escalate"
    /\ pc' = "retry_sleep"
    /\ UNCHANGED <<objVars, lock, envVars, saveLocals, scanLocals, loopLocals,
                   iterLocals, readerVars, histVars>>

\* Variant of ApplyEscalate: the comparison of line 556 is `>` instead of `>=`.
ApplyEscalate_OffByOne ==
    /\ pc = "apply_escalate"
    /\ IF AttemptsOf(Registry, mint_str) > MAX_SELL_RETRIES
       THEN /\ heap' = SetField(heap, mint_str, "status", PyStr("failed_max_retries"))
            /\ lock' = "free"
            /\ pc' = "end_iter"
       ELSE /\ pc' = "retry_sleep"
            /\ UNCHANGED <<heap, lock>>
    /\ UNCHANGED <<monitored_tokens, envVars, saveLocals, scanLocals, loopLocals,
                   iterLocals, readerVars, histVars>>

\* lines 556-561: the failure escalates, or the retry delay starts in the block.
ApplyEscalate ==
    /\ pc = "apply_escalate"
    /\ IF AttemptsOf(Registry, mint_str) >= MAX_SELL_RETRIES
       THEN /\ heap' = SetField(heap, mint_str, "status", PyStr("failed_max_retries"))
            /\ lock' = "free"
            /\ pc' = "end_iter"
       ELSE /\ pc' = "retry_sleep"
            /\ UNCHANGED <<heap, lock>>
    /\ UNCHANGED <<monitored_tokens, envVars, saveLocals, scanLocals, loopLocals,
                   iterLocals, readerVars, histVars>>

\* Variant of RetrySleep: the `with lock` block is not left before line 569.
RetrySleep_KeepsLock ==
    /\ pc = "retry_sleep"
    /\ pc' = "end_iter"
    /\ UNCHANGED <<objVars, lock, envVars, saveLocals, scanLocals, loopLocals,
                   iterLocals, readerVars, histVars>>

\* line 561: time.sleep(RETRY_DELAY_SECONDS) returns and the block is left.
RetrySleep ==
    /\ pc = "retry_sleep"
    /\ lock' = "free"
    /\ pc' = "end_iter"
    /\ UNCHANGED <<objVars, envVars, saveLocals, scanLocals, loopLocals, iterLocals,
                   readerVars, histVars>>

\* lines 569-570: the end of an iteration that did not `continue`.
EndIter ==
    /\ pc = "end_iter"
    /\ IF should_save
       THEN /\ pc' = "save_copy"
            /\ save_ret' = "next_token"
            /\ UNCHANGED <<loopLocals, iterLocals>>
       ELSE Continue /\ UNCHANGED save_ret
    /\ UNCHANGED <<objVars, lock, envVars, loaded_data, state_to_save, scanLocals,
                   readerVars, histVars>>

\* lines 575-580: the for loop is exhausted.
CycleEnd ==
    /\ pc = "tok_begin"
    /\ idx > Len(mints_to_process)
    /\ mints_to_process' = <<>>
    /\ idx' = 1
    /\ pc' = "cycle_sleep"
    /\ UNCHANGED <<objVars, lock, envVars, saveLocals, scanLocals, iterLocals,
                   readerVars, histVars>>

\* lines 581-582: the inter-cycle sleep returns.
CycleSleep ==
    /\ pc = "cycle_sleep"
    /\ pc' = "scan"
    /\ UNCHANGED <<objVars, lock, envVars, saveLocals, scanLocals, loopLocals,
                   iterLocals, readerVars, histVars>>

\* ------------------------------------------------------------ environment
\* The positions at which the bot waits for the network, the disk or a timer.
NetworkPcs == {"scan", "find_mints", "curve", "balance", "execute_sell"}
FilePcs == {"load_read", "save_write"}
SleepPcs == {"retry_sleep", "cycle_sleep"}

\* The clock advances while the bot waits.
Tick ==
    /\ now < MaxTime
    /\ pc \in NetworkPcs \cup FilePcs \cup SleepPcs
    /\ now' = now + 1
    /\ UNCHANGED <<objVars, lock, file, chain, wallet_mints, MAX_SELL_RETRIES,
                   save_faults, pc, saveLocals,
                   scanLocals, loopLocals, iterLocals, readerVars, histVars>>

\* The wallet lands a transaction; a mint is created at most once.
WalletTx ==
    /\ Len(chain) < MaxTxs
    /\ \E k \in (wallet_mints \cup {"other"}) \ Created(chain) :
        chain' = Append(chain, k)
    /\ UNCHANGED <<objVars, lock, file, wallet_mints, now, MAX_SELL_RETRIES,
                   save_faults, pc, saveLocals,
                   scanLocals, loopLocals, iterLocals, readerVars, histVars>>

\* ------------------------------------------------------- app.get_status
\* Variant of ReaderMayEnter: the reader does not wait for the lock.
ReaderMayEnter_NoLock == TRUE
\* app.py:85: `with state_lock`.
ReaderMayEnter == lock = "free"

\* app.py:85-88: the snapshot is taken of the object app.py's name is bound to.
ReaderEnter ==
    /\ reader = "idle"
    /\ ReaderMayEnter
    /\ lock' = "reader"
    /\ reader' = "in_lock"
    /\ tokens_snapshot' = JsonCopy(heap[app_monitored_tokens])
    /\ UNCHANGED <<objVars, envVars, pc, saveLocals, scanLocals, loopLocals,
                   iterLocals, histVars>>

\* app.py:88-95: the block is left and the response sent.
ReaderExit ==
    /\ reader = "in_lock"
    /\ lock' = "free"
    /\ reader' = "idle"
    /\ UNCHANGED <<objVars, envVars, pc, saveLocals, scanLocals, loopLocals,
                   iterLocals, tokens_snapshot, histVars>>

\* ------------------------------------------------------------------ Spec
Next ==
    \/ LoadRead \/ LoadAssign \/ SaveCopy \/ SaveWrite
    \/ Scan \/ FindMints \/ Register
    \/ ListKeys \/ TokBegin \/ Curve \/ MarkMissed \/ Balance \/ MarkEmptied
    \/ StoreValue \/ MarkFailedMax \/ ResetMinOut \/ Reset \/ IncrAttempt
    \/ ExecuteSell \/ ApplyStatus \/ ApplyTx \/ ApplyEscalate \/ RetrySleep
    \/ EndIter \/ CycleEnd \/ CycleSleep
    \/ Tick \/ WalletTx \/ ReaderEnter \/ ReaderExit

Spec == Init /\ [][Next]_vars

\* ------------------------------------ fair runs with a fault-free RPC
\* Every RPC call answers: the signatures are fetched, the curve account is
\* read and the token account lookup returns.
ScanFaultFree == ScanWith(FALSE)
CurveFaultFree == CurveFrom(CurveReads \ {NoCurve})
BalanceFaultFree == BalanceFrom({r \in TokenAccountReads : r.kind # "rpc_error"})

\* The steps of the bot thread (app.py:46-70 runs monitor_and_sell).
BotLive ==
    \/ LoadRead \/ LoadAssign \/ SaveCopy \/ SaveWrite
    \/ ScanFaultFree \/ FindMints \/ Register
    \/ ListKeys \/ TokBegin \/ CurveFaultFree \/ MarkMissed \/ BalanceFaultFree
    \/ MarkEmptied
    \/ StoreValue \/ MarkFailedMax \/ ResetMinOut \/ Reset \/ IncrAttempt
    \/ ExecuteSell \/ ApplyStatus \/ ApplyTx \/ ApplyEscalate \/ RetrySleep
    \/ EndIter \/ CycleEnd \/ CycleSleep

InitLive == Init /\ MAX_SELL_RETRIES = 2

NextLive ==
    \/ LoadRead \/ LoadAssign \/ SaveCopy \/ SaveWrite
    \/ ScanFaultFree \/ FindMints \/ Register
    \/ ListKeys \/ TokBegin \/ CurveFaultFree \/ MarkMissed \/ BalanceFaultFree
    \/ MarkEmptied
    \/ StoreValue \/ MarkFailedMax \/ ResetMinOut \/ Reset \/ IncrAttempt
    \/ ExecuteSell \/ ApplyStatus \/ ApplyTx \/ ApplyEscalate \/ RetrySleep
    \/ EndIter \/ CycleEnd \/ CycleSleep
    \/ Tick \/ WalletTx \/ ReaderEnter \/ ReaderExit

\* The bot thread is scheduled whenever it can run again and again (the lock
\* is released by every holder), and a reader leaves its block.
SpecLive ==
    InitLive /\ [][NextLive]_vars /\ SF_vars(BotLive) /\ WF_vars(ReaderExit)

\* The same fair runs, of a process that starts with a registry left by an
\* earlier run.
InitAged == Init /\ MAX_SELL_RETRIES = 2 /\ file.kind = "mapping"

SpecAged ==
    InitAged /\ [][NextLive]_vars /\ SF_vars(BotLive) /\ WF_vars(ReaderExit)

\* ------------------------------------------- runs with uncaught exceptions
\* The positions inside the try block of one record (lines 458-570) whose
\* statements index the record or compute with its fields: 466-468, 491-511,
\* 533, 540-543 and, inside the `with lock` block, 556.
TokenTryPcs ==
    {"curve", "store_value", "incr_attempt", "execute_sell", "apply_escalate"}

\* A statement of the record's try block raises: a `with lock` block is left
\* and control goes to the handler at line 571.
TokenFault ==
    /\ \/ pc \in TokenTryPcs
       \/ pc = "tok_begin" /\ idx <= Len(mints_to_process)
    /\ pc' = "inner_except"
    /\ lock' = IF lock = "bot" THEN "free" ELSE lock
    /\ UNCHANGED <<objVars, envVars, saveLocals, scanLocals, loopLocals, iterLocals,
                   readerVars, histVars>>

\* lines 571-574: the error is printed and the for loop takes the next record.
InnerExcept ==
    /\ pc = "inner_except"
    /\ Continue
    /\ UNCHANGED <<objVars, lock, envVars, saveLocals, scanLocals, readerVars,
                   histVars>>

\* lines 438-441: a statement of the scan's try block raises; the watermark is
\* not moved and the cycle goes on with the decision pass.
ScanFault ==
    /\ pc \in {"find_mints", "register"}
    /\ recent_signatures' = <<>>
    /\ new_mints' = {}
    /\ pc' = "keys"
    /\ UNCHANGED <<objVars, lock, envVars, saveLocals, last_tx_check_sig, unexamined,
                   loopLocals, iterLocals, readerVars, histVars>>

\* lines 586-591: a statement of the cycle outside the inner try blocks raises;
\* the handler prints and sleeps five intervals.
CycleFault ==
    /\ \/ pc \in {"keys", "cycle_sleep"}
       \/ pc = "tok_begin" /\ idx > Len(mints_to_process)
    /\ mints_to_process' = <<>>
    /\ idx' = 1
    /\ pc' = "backoff"
    /\ UNCHANGED <<objVars, lock, envVars, saveLocals, scanLocals, iterLocals,
                   readerVars, histVars>>

\* Variant of Backoff: the handler leaves the while loop.
Backoff_LeavesLoop ==
    /\ pc = "backoff"
    /\ pc' = "exit"
    /\ UNCHANGED <<objVars, lock, envVars, saveLocals, scanLocals, loopLocals,
                   iterLocals, readerVars, histVars>>

\* line 591 and 398: the long sleep returns and the while loop goes round.
Backoff ==
    /\ pc = "backoff"
    /\ pc' = "scan"
    /\ UNCHANGED <<objVars, lock, envVars, saveLocals, scanLocals, loopLocals,
                   iterLocals, readerVars, histVars>>

\* A process that starts with the two records an earlier run left: it had
\* registered A and sold B.  The run is short: the wallet makes no further
\* transaction, no status request comes in, and A is young all along or old
\* all along.
InitExc ==
    /\ heap = [o \in {"module_dict", "loaded_dict"} |-> <<>>]
    /\ monitored_tokens = "module_dict"
    /\ lock = "free"
    /\ MAX_SELL_RETRIES = 2
    /\ save_faults = 0
    /\ file = MappingFile(JsonDumps(<<[k |-> "A", v |-> NewRecord("A", 0)],
                                      [k |-> "B", v |-> SoldRecord("B")]>>))
    /\ chain = <<"A", "B">>
    /\ wallet_mints = {}
    /\ now \in {0, MaxTime}
    /\ pc = "load_read"
    /\ loaded_data = <<>>
    /\ state_to_save = <<>>
    /\ save_ret = "none"
    /\ last_tx_check_sig = 0
    /\ recent_signatures = <<>>
    /\ new_mints = {}
    /\ unexamined = {}
    /\ mints_to_process = <<>>
    /\ idx = 1
    /\ token_data_copy = NoRecord
    /\ should_save = FALSE
    /\ curve_state = NoCurve
    /\ balance_resp = NoResponse
    /\ dev_balance_lamports = 0
    /\ sell_result = NoResult
    /\ reader = "idle"
    /\ tokens_snapshot = <<>>
    /\ sell_calls = [m \in Mints |-> 0]
    /\ calls_since_reset = [m \in Mints |-> 0]

\* The steps the bot thread takes when it is scheduled; raising is no step it
\* has to take.
BotExc ==
    \/ LoadRead \/ LoadAssign \/ SaveCopy \/ SaveWrite
    \/ Scan \/ FindMints \/ Register
    \/ ListKeys \/ TokBegin \/ Curve \/ MarkMissed \/ Balance \/ MarkEmptied
    \/ StoreValue \/ MarkFailedMax \/ ResetMinOut \/ Reset \/ IncrAttempt
    \/ ExecuteSell \/ ApplyStatus \/ ApplyTx \/ ApplyEscalate \/ RetrySleep
    \/ EndIter \/ CycleEnd \/ CycleSleep
    \/ InnerExcept \/ Backoff

NextExc ==
    \/ LoadRead \/ LoadAssign \/ SaveCopy \/ SaveWrite
    \/ Scan \/ FindMints \/ Register
    \/ ListKeys \/ TokBegin \/ Curve \/ MarkMissed \/ Balance \/ MarkEmptied
    \/ StoreValue \/ MarkFailedMax \/ ResetMinOut \/ Reset \/ IncrAttempt
    \/ ExecuteSell \/ ApplyStatus \/ ApplyTx \/ ApplyEscalate \/ RetrySleep
    \/ EndIter \/ CycleEnd \/ CycleSleep
    \/ TokenFault \/ InnerExcept \/ ScanFault \/ CycleFault \/ Backoff

\* No other thread takes the lock, so the bot can always take its next step.
SpecExc == InitExc /\ [][NextExc]_vars /\ WF_vars(BotExc)

\* --------------------------------------- runs with a failing get_transaction
\* line 236 raises for some signature of the batch; the earlier ones were read.
FindMintsFaulty == \E read \in 0..Len(recent_signatures) : FindMintsWith(read)

InitFetch == Init /\ MAX_SELL_RETRIES = 2

NextFetch ==
    \/ LoadRead \/ LoadAssign \/ SaveCopy \/ SaveWrite
    \/ Scan \/ FindMintsFaulty \/ Register
    \/ ListKeys \/ TokBegin \/ Curve \/ MarkMissed \/ Balance \/ MarkEmptied
    \/ StoreValue \/ MarkFailedMax \/ ResetMinOut \/ Reset \/ IncrAttempt
    \/ ExecuteSell \/ ApplyStatus \/ ApplyTx \/ ApplyEscalate \/ RetrySleep
    \/ EndIter \/ CycleEnd \/ CycleSleep
    \/ Tick \/ WalletTx \/ ReaderEnter \/ ReaderExit

SpecFetch == InitFetch /\ [][NextFetch]_vars

\* ------------------------------------------------- the price of a curve
\* The account data of a curve has been decoded, with any reserves.
InitPrice ==
    /\ heap = [o \in {"module_dict", "loaded_dict"} |-> <<>>]
    /\ monitored_tokens = "module_dict"
    /\ lock = "free"
    /\ MAX_SELL_RETRIES = 1
    /\ save_faults = 0
    /\ file = MissingFile
    /\ chain = <<>>
    /\ wallet_mints = {}
    /\ now = 0
    /\ pc = "parse_curve"
    /\ loaded_data = <<>>
    /\ state_to_save = <<>>
    /\ save_ret = "none"
    /\ last_tx_check_sig = 0
    /\ recent_signatures = <<>>
    /\ new_mints = {}
    /\ unexamined = {}
    /\ mints_to_process = <<>>
    /\ idx = 1
    /\ token_data_copy = NoRecord
    /\ should_save = FALSE
    /\ curve_state \in {ParsedAccount(t, v, c) :
                          t \in 0..MaxReserve, v \in 0..MaxReserve, c \in BOOLEAN}
    /\ balance_resp = NoResponse
    /\ dev_balance_lamports = 0
    /\ sell_result = NoResult
    /\ reader = "idle"
    /\ tokens_snapshot = <<>>
    /\ sell_calls = [m \in Mints |-> 0]
    /\ calls_since_reset = [m \in Mints |-> 0]

\* lines 200-219: get_bonding_curve_state builds its result from the decoded data.
ParseCurve ==
    /\ pc = "parse_curve"
    /\ curve_state' = get_bonding_curve_state(curve_state)
    /\ pc' = "curve_parsed"
    /\ UNCHANGED <<heap, monitored_tokens, lock, envVars, loaded_data, state_to_save,
                   save_ret, last_tx_check_sig, recent_signatures, new_mints,
                   unexamined,
                   mints_to_process, idx, token_data_copy, should_save, balance_resp,
                   dev_balance_lamports, sell_result, reader, tokens_snapshot,
                   sell_calls, calls_since_reset>>

NextPrice == ParseCurve

SpecPrice == InitPrice /\ [][NextPrice]_vars

\* As Init, in a run where save_state fails once: json.dumps, open or the
\* write raises.
InitFaults ==
    /\ heap = [o \in {"module_dict", "loaded_dict"} |-> <<>>]
    /\ monitored_tokens = "module_dict"
    /\ lock = "free"
    /\ MAX_SELL_RETRIES = 2
    /\ save_faults = 1
    /\ file \in StartFiles(MAX_SELL_RETRIES)
    /\ chain = Keys(file.doc)
    /\ wallet_mints = {"A"}
    /\ now = 0
    /\ pc = "load_read"
    /\ loaded_data = <<>>
    /\ state_to_save = <<>>
    /\ save_ret = "none"
    /\ last_tx_check_sig = 0
    /\ recent_signatures = <<>>
    /\ new_mints = {}
    /\ unexamined = {}
    /\ mints_to_process = <<>>
    /\ idx = 1
    /\ token_data_copy = NoRecord
    /\ should_save = FALSE
    /\ curve_state = NoCurve
    /\ balance_resp = NoResponse
    /\ dev_balance_lamports = 0
    /\ sell_result = NoResult
    /\ reader = "idle"
    /\ tokens_snapshot = <<>>
    /\ sell_calls = [m \in Mints |-> 0]
    /\ calls_since_reset = [m \in Mints |-> 0]

SpecFaults == InitFaults /\ [][Next]_vars

\* ------------------------------------------------- save, restart, load, save
\* The records a registry may hold when it is saved.
SavedRecords(m) ==
    {[NewRecord(m, t) EXCEPT !.status = PyStr(st), !.sell_attempts = PyInt(a),
                             !.sell_tx = tx, !.last_value_sol = lv] :
        t \in {0, MaxTime}, st \in {"monitoring", "sell_failed", "sold"},
        a \in {0, 1}, tx \in {PyNone, PyStr("signature")},
        lv \in {PyStr("0.0"), DecimalStr(4)}}
\* The registries: no record, one, or one for each mint in either order.
SavedRegistries ==
    {<<>>}
    \cup UNION {{<<[k |-> m, v |-> r]>> : r \in SavedRecords(m)} : m \in Mints}
    \cup UNION {UNION {{<<[k |-> m1, v |-> r1], [k |-> m2, v |-> r2]>> :
                            r1 \in SavedRecords(m1), r2 \in SavedRecords(m2)} :
                        m2 \in Mints \ {m1}} :
                 m1 \in Mints}

\* A process holding some registry is about to make its final save (line 593);
\* no snapshot has been written yet.
InitRT ==
    /\ \E reg \in SavedRegistries :
            heap = [o \in {"module_dict", "loaded_dict"} |->
                        IF o = "loaded_dict" THEN reg ELSE <<>>]
    /\ monitored_tokens = "loaded_dict"
    /\ lock = "free"
    /\ MAX_SELL_RETRIES \in RetryConfigs
    /\ save_faults = 0
    /\ file = MissingFile
    /\ chain = <<>>
    /\ wallet_mints = {}
    /\ now = 0
    /\ pc = "save_copy"
    /\ loaded_data = <<>>
    /\ state_to_save = <<>>
    /\ save_ret = "exit"
    /\ last_tx_check_sig = 0
    /\ recent_signatures = <<>>
    /\ new_mints = {}
    /\ unexamined = {}
    /\ mints_to_process = <<>>
    /\ idx = 1
    /\ token_data_copy = NoRecord
    /\ should_save = FALSE
    /\ curve_state = NoCurve
    /\ balance_resp = NoResponse
    /\ dev_balance_lamports = 0
    /\ sell_result = NoResult
    /\ reader = "idle"
    /\ tokens_snapshot = <<>>
    /\ sell_calls = [m \in Mints |-> 0]
    /\ calls_since_reset = [m \in Mints |-> 0]

\* line 64 and lines 388-395: a new process starts with the module's empty dict
\* and goes to load_state; of the old process only STATE_FILE is left.
Restart ==
    /\ pc = "exit"
    /\ heap' = [o \in {"module_dict", "loaded_dict"} |-> <<>>]
    /\ monitored_tokens' = "module_dict"
    /\ loaded_data' = <<>>
    /\ pc' = "load_read"
    /\ UNCHANGED <<lock, envVars, state_to_save, save_ret, scanLocals, loopLocals,
                   iterLocals, readerVars, histVars>>

\* lines 583-585, 593: the loop is interrupted before its first cycle and the
\* registry is saved on the way out.
Interrupt ==
    /\ pc = "scan"
    /\ pc' = "save_copy"
    /\ save_ret' = "exit"
    /\ UNCHANGED <<objVars, lock, envVars, loaded_data, state_to_save, scanLocals,
                   loopLocals, iterLocals, readerVars, histVars>>

NextRT ==
    \/ SaveCopy \/ SaveWrite \/ Restart \/ LoadRead \/ LoadAssign \/ Interrupt

SpecRT == InitRT /\ [][NextRT]_vars

\* ================================================================ claims
Tracked(m) == HasKey(Registry, m)
\* m has a record before and after the step.
Kept(m) == HasKey(Registry, m) /\ HasKey(Registry', m)
TxOf(d, m) == Get(d, m).sell_tx
\* The bot is between counting an attempt for m and having applied its result.
SellInFlight(m) ==
    /\ pc \in {"save_copy", "save_write", "execute_sell", "apply_status",
               "apply_tx", "apply_escalate"}
    /\ pc \in {"save_copy", "save_write"} => save_ret = "execute_sell"
    /\ mint_str = m

\* ------------------------------------------------------------------- C1
SpecEdges ==
    {<<"monitoring", "sold">>, <<"monitoring", "missed_raydium">>,
     <<"monitoring", "emptied">>, <<"monitoring", "sell_failed">>,
     <<"monitoring", "failed_max_retries">>, <<"sell_failed", "monitoring">>,
     <<"sell_failed", "sold">>, <<"sell_failed", "failed_max_retries">>}
CodeEdges ==
    SpecEdges \cup {<<"sell_failed", "missed_raydium">>, <<"sell_failed", "emptied">>}
StatusStepsIn(edges) ==
    \A m \in Mints :
        Kept(m) =>
            \/ StatusOf(Registry', m) = StatusOf(Registry, m)
            \/ <<StatusOf(Registry, m), StatusOf(Registry', m)>> \in edges

\* C1 as stated: every change of a record's status follows one of the eight
\* edges of the spec; in particular sell_failed never moves directly to
\* missed_raydium or emptied.
C1_OnlySpecEdges == [][StatusStepsIn(SpecEdges)]_vars

\* C1 amended: every change of a record's status follows one of the eight edges
\* or sell_failed -> missed_raydium or sell_failed -> emptied; sold,
\* missed_raydium, emptied and failed_max_retries are never left.
C1_OnlyCodeEdges == [][StatusStepsIn(CodeEdges)]_vars

\* A sell_failed record (its attempts counted, not reset) was marked missed_raydium.
C1_Witness ==
    \E m \in Mints :
        /\ Tracked(m)
        /\ StatusOf(Registry, m) = "missed_raydium"
        /\ calls_since_reset[m] >= 1
        /\ TxOf(Registry, m).s \in {"failed_signature", "failed_no_sig"}

\* ------------------------------------------------------------------- C2
\* C2: while a record is monitoring or sell_failed its sell_attempts never
\* decreases from one registry state to the next, except that it becomes
\* exactly 0 in the step that changes status from sell_failed to monitoring;
\* no other step lowers sell_attempts.
C2_AttemptsOnlyResetToZero ==
    [][\A m \in Mints :
        Kept(m) =>
            \/ AttemptsOf(Registry', m) >= AttemptsOf(Registry, m)
            \/ /\ StatusOf(Registry, m) = "sell_failed"
               /\ StatusOf(Registry', m) = "monitoring"
               /\ AttemptsOf(Registry', m) = 0]_vars

\* A record that failed a submission in this run is back in monitoring with a
\* counter of 0.
C2_Witness ==
    \E m \in Mints :
        /\ Tracked(m)
        /\ sell_calls[m] >= 1
        /\ StatusOf(Registry, m) = "monitoring"
        /\ AttemptsOf(Registry, m) = 0

\* ------------------------------------------------------------------- C3
\* The counter of m stands at the bound after a submission of this run, and no
\* submission for m is in flight.
ReachedMax(m) ==
    /\ Tracked(m)
    /\ AttemptsOf(Registry, m) >= MAX_SELL_RETRIES
    /\ calls_since_reset[m] >= 1
    /\ ~SellInFlight(m)

\* C3 as stated: a token whose sell_attempts reached max_retries ends in
\* failed_max_retries.
C3_ReachedMaxEndsFailed ==
    \A m \in Mints : ReachedMax(m) => StatusOf(Registry, m) = "failed_max_retries"

\* C3 amended: once the submission that brought sell_attempts to max_retries has
\* been resolved, the token is failed_max_retries if it failed and sold if it
\* succeeded, and for the rest of the run no submission is started for it.
C3_ReachedMaxIsFinal ==
    /\ [](\A m \in Mints :
            ReachedMax(m) =>
                \/ StatusOf(Registry, m) = "failed_max_retries"
                \/ /\ StatusOf(Registry, m) = "sold"
                   /\ TxOf(Registry, m) = PyStr("signature"))
    /\ [][\A m \in Mints :
            ReachedMax(m) =>
                /\ ReachedMax(m)'
                /\ StatusOf(Registry', m) = StatusOf(Registry, m)
                /\ sell_calls'[m] = sell_calls[m]]_vars

\* At the bound 2 a later cycle is about to visit a record whose second
\* submission failed.
C3_Witness ==
    \E m \in Mints :
        /\ ReachedMax(m)
        /\ MAX_SELL_RETRIES = 2
        /\ StatusOf(Registry, m) = "failed_max_retries"
        /\ pc = "tok_begin"
        /\ idx <= Len(mints_to_process)
        /\ mint_str = m

\* ------------------------------------------------------------------- C4
\* N = max_retries submissions were made for m since its counter was 0, the
\* last one failed and its result has been applied.
FailedNTimes(m) ==
    /\ Tracked(m)
    /\ calls_since_reset[m] = MAX_SELL_RETRIES
    /\ TxOf(Registry, m).s \in {"failed_signature", "failed_no_sig"}
    /\ ~SellInFlight(m)

\* C4: for max_retries = N, after N consecutive failed submissions the record
\* is failed_max_retries with sell_attempts = N (the N-th failure escalates in
\* the same cycle), and later cycles make no submission for it.
C4_NFailuresEscalate ==
    /\ [](\A m \in Mints :
            FailedNTimes(m) =>
                /\ StatusOf(Registry, m) = "failed_max_retries"
                /\ AttemptsOf(Registry, m) = MAX_SELL_RETRIES)
    /\ [][\A m \in Mints :
            FailedNTimes(m) =>
                /\ calls_since_reset'[m] = calls_since_reset[m]
                /\ ~SellInFlight(m)']_vars

\* Two failures at the bound 2, seen from the cycle after.
C4_Witness ==
    \E m \in Mints :
        /\ FailedNTimes(m)
        /\ MAX_SELL_RETRIES = 2
        /\ pc = "cycle_sleep"

\* ------------------------------------------------------------------- C5
\* C5 as stated: over a token's whole life the Execution Client is invoked for
\* it at most max_retries times.
C5_AtMostMaxCallsEver ==
    \A m \in Mints : sell_calls[m] <= MAX_SELL_RETRIES

\* C5 amended: within a run every invocation is preceded by an increment of
\* sell_attempts, made only while the counter is below max_retries; so since
\* the counter of a token was last reset to 0 (sell_failed -> monitoring) the
\* invocations for it number at most its sell_attempts, and a token that has
\* been submitted since then has sell_attempts <= max_retries.
C5_AtMostMaxCallsPerBudget ==
    \A m \in Mints :
        Tracked(m) =>
            /\ calls_since_reset[m] <= AttemptsOf(Registry, m)
            /\ calls_since_reset[m] >= 1 => AttemptsOf(Registry, m) <= MAX_SELL_RETRIES

\* A second budget is in use: more invocations than the bound in total.
C5_Witness ==
    \E m \in Mints :
        /\ Tracked(m)
        /\ sell_calls[m] > MAX_SELL_RETRIES
        /\ calls_since_reset[m] >= 1

\* ------------------------------------------------------------------- C6
\* C6: once load_state has replaced the registry, the tokens of a status
\* response are a copy of the registry the loop works on: every record of the
\* registry, with its current fields, is in the snapshot taken under the lock.
C6_StatusShowsRegistry ==
    (reader = "in_lock" /\ monitored_tokens = "loaded_dict")
        => tokens_snapshot = JsonCopy(Registry)

\* ------------------------------------------------------------------- C7
\* The registry holds a submission result of which only a part is written:
\* the status without the reference, or the sell_failed that the same block is
\* about to turn into failed_max_retries.
HalfApplied ==
    \/ pc = "apply_tx"
    \/ pc = "apply_escalate" /\ AttemptsOf(Registry, mint_str) >= MAX_SELL_RETRIES
    \/ \E m \in Mints :
        /\ Tracked(m)
        /\ StatusOf(Registry, m) = "sold"
        /\ TxOf(Registry, m) # PyStr("signature")

\* C7: whenever a status reader is inside its `with state_lock` block, taking
\* its snapshot, the registry holds no half-applied submission result: the
\* reader is let in before the status is written or after status, sell_tx and
\* the escalation are all written, never in between.
C7_ReaderNeverSeesHalfApplied == reader = "in_lock" => ~HalfApplied

\* The reader is inside its block while the bot, back from a failed submission,
\* waits for the lock to apply the result.
C7_Witness ==
    /\ reader = "in_lock"
    /\ pc = "apply_status"
    /\ ~sell_result.success

\* ------------------------------------------------------------------- C8
\* C8: while a network call, a read or write of the snapshot file or the
\* inter-cycle sleep is in progress, the bot does not hold the registry lock.
C8_NoLockAcrossIO ==
    pc \in NetworkPcs \cup FilePcs \cup {"cycle_sleep"} => lock # "bot"

\* The snapshot file is being written at the end of an iteration that changed
\* a record, and the reader holds the lock meanwhile.
C8_Witness ==
    /\ pc = "save_write"
    /\ save_ret = "next_token"
    /\ lock = "reader"

\* ------------------------------------------------------------------- C9
\* C9: while the retry-delay pause after a failed submission is in progress, a
\* status reader that requests the lock can acquire it.
C9_ReaderEntersDuringRetryPause == pc = "retry_sleep" => ReaderMayEnter

\* ------------------------------------------------------------------ C10
\* C10: a save made right after loading a snapshot that save_state wrote, with
\* no cycle in between, leaves the snapshot file as it was: same keys in the
\* same order with the same field values.
C10_ResaveIsIdentical ==
    [][(pc = "save_write" /\ file.kind = "mapping") => file' = file]_vars

\* A snapshot of two records, one never sold and one sold, was loaded by a new
\* process and saved again.
C10_Witness ==
    /\ pc = "exit"
    /\ Len(loaded_data) = 2
    /\ file = MappingFile(JsonDumps(Registry))
    /\ \E i, j \in 1..2 :
        /\ Registry[i].v.sell_tx = PyNone
        /\ Registry[j].v.sell_tx = PyStr("signature")
        /\ Registry[j].v.last_value_sol = DecimalStr(4)

\* ------------------------------------------------------------------ C11
\* C11: load_state always returns and the loop goes on to its first scan;
\* after it the registry is the content of the snapshot file when that is a
\* readable JSON object, and the empty mapping when the file is missing, is
\* not JSON, is JSON of another type or cannot be read.
C11_LoadFailsOpen ==
    [][/\ (pc = "load_read" /\ pc' # pc) => pc' = "load_assign"
       /\ (pc = "load_assign" /\ pc' # pc) =>
            /\ pc' = "scan"
            /\ Registry' = IF file.kind = "mapping" THEN JsonLoads(file.doc) ELSE <<>>]_vars

\* The loop reached its first scan with an empty registry although the file
\* held JSON that is not an object.
C11_Witness ==
    /\ pc = "scan"
    /\ file = NotMappingFile
    /\ monitored_tokens = "loaded_dict"
    /\ Registry = <<>>

\* ------------------------------------------------------------------ C12
\* C12: a save that fails (in json.dumps, in open or during the write) while
\* the snapshot file holds a saved registry leaves the file as it is, and the
\* loop goes on to its next step.
C12_FailedSaveKeepsSnapshot ==
    [][(save_faults' < save_faults /\ file.kind = "mapping")
            => (file' = file /\ pc' # pc)]_vars

\* ------------------------------------------------------------------ C13
\* The balance read of this iteration met an RPC error, an account that does
\* not exist or a value that is no amount.
TransientBalanceRead == balance_resp.kind \in {"rpc_error", "not_found", "malformed"}

\* C13: a curve read or a balance read that meets a transient condition changes
\* no record's status or sell_attempts: neither the read itself nor the rest
\* of the iteration after a transient balance read.
C13_TransientKeepsRecord ==
    [][(pc \in {"curve", "balance"} \/ TransientBalanceRead) =>
            \A m \in Mints :
                Kept(m) => /\ StatusOf(Registry', m) = StatusOf(Registry, m)
                           /\ AttemptsOf(Registry', m) = AttemptsOf(Registry, m)]_vars

\* ------------------------------------------------------------------ C14
\* C14: a curve read that returns a complete curve for a monitoring or
\* sell_failed record leads straight to the missed_raydium step, which is
\* reached without a balance read; that step sets the status to missed_raydium
\* whatever the record's age, value and sell_attempts, makes no submission and
\* ends the iteration.
C14_CompleteCurveMarksMissed ==
    /\ [](pc = "mark_missed" =>
            /\ curve_state.complete
            /\ balance_resp = NoResponse
            /\ token_data_copy.status.s \in {"monitoring", "sell_failed"})
    /\ [][(pc = "curve" /\ curve_state'.kind = "state" /\ curve_state'.complete)
            => pc' = "mark_missed"]_vars
    /\ [][(pc = "mark_missed" /\ pc' # pc) =>
            /\ StatusOf(Registry', mint_str) = "missed_raydium"
            /\ pc' = "tok_begin" /\ idx' = idx + 1
            /\ sell_calls' = sell_calls]_vars

\* A sell_failed record that is past the sell delay, with its attempts
\* counted and no submission made in this run, was marked missed_raydium.
C14_Witness ==
    \E m \in Mints :
        /\ Tracked(m)
        /\ StatusOf(Registry, m) = "missed_raydium"
        /\ AttemptsOf(Registry, m) >= 1
        /\ TxOf(Registry, m) = PyStr("failed_signature")
        /\ sell_calls[m] = 0
        /\ now - Get(Registry, m).created_at.n >= SELL_DELAY_SECONDS

\* ------------------------------------------------------------------ C15
\* C15: after an incomplete curve, the emptied step is reached only with a
\* balance of exactly 0 and turns a monitoring record into emptied without a
\* submission; a negative balance ends the iteration with the record (status,
\* sell_attempts, last_value and all) as it was and without a submission.
C15_ZeroEmptiesErrorSkips ==
    /\ [](pc = "mark_emptied" => (dev_balance_lamports = 0 /\ ~curve_state.complete))
    /\ [][(pc = "mark_emptied" /\ pc' # pc) =>
            /\ token_data_copy.status.s = "monitoring"
                    => StatusOf(Registry', mint_str) = "emptied"
            /\ pc' = "tok_begin" /\ idx' = idx + 1
            /\ sell_calls' = sell_calls]_vars
    /\ [][(pc = "balance" /\ pc' = "tok_begin") =>
            /\ Get(Registry', mint_str) = Get(Registry, mint_str)
            /\ sell_calls' = sell_calls]_vars

\* A monitoring record that was never submitted was marked emptied after the
\* account reported the amount 0.
C15_Witness ==
    \E m \in Mints :
        /\ Tracked(m)
        /\ StatusOf(Registry, m) = "emptied"
        /\ AttemptsOf(Registry, m) = 0
        /\ TxOf(Registry, m) = PyNone
        /\ sell_calls[m] = 0

\* C16: a sell is attempted exactly when the token is old enough or valuable
\* enough, the attempt budget is not spent and the minimum output is positive;
\* the attempt is saved and then submitted, and a successful submission leaves
\* the record sold with the transaction signature.
C16_SellSignal ==
    \/ now - token_data_copy.created_at.n >= SELL_DELAY_SECONDS
    \/ CurrentValue(dev_balance_lamports, curve_state) >= TAKE_PROFIT_LAMPORTS
C16_SellExactlyOnSignal ==
    [][/\ (pc = "store_value" /\ pc' # pc) =>
            ((pc' = "incr_attempt") <=>
                /\ C16_SellSignal
                /\ token_data_copy.sell_attempts.n < MAX_SELL_RETRIES
                /\ MinSolOutputLamports(CurrentValue(dev_balance_lamports, curve_state)) > 0)
       /\ (pc' = "execute_sell" /\ pc # pc') =>
            (pc \in {"save_copy", "save_write"} /\ save_ret = "execute_sell")
       /\ (pc = "incr_attempt" /\ pc' # pc) => (pc' = "save_copy" /\ save_ret' = "execute_sell")
       /\ (pc = "apply_tx" /\ pc' # pc /\ sell_result.success) =>
            /\ StatusOf(Registry', mint_str) = "sold"
            /\ Get(Registry', mint_str).sell_tx = PyStr("signature")]_vars
\* A record sold at a value below the take-profit threshold: age alone triggered.
C16_Witness ==
    \E m \in Mints :
        /\ HasKey(Registry, m)
        /\ StatusOf(Registry, m) = "sold"
        /\ Get(Registry, m).sell_tx = PyStr("signature")
        /\ Get(Registry, m).last_value_sol = DecimalStr(2)

\* C17: a curve with no virtual token reserves has price 0, whatever its
\* other reserves are.
C17_ZeroReservePriceZero ==
    (pc = "curve_parsed" /\ curve_state.vtr = 0) => curve_state.price = 0
C17_Witness ==
    /\ pc = "curve_parsed"
    /\ curve_state.kind = "state"
    /\ curve_state.vtr = 0
    /\ curve_state.vsr = MaxReserve
    /\ curve_state.price = 0
\* C18: the scan watermark never moves back in the wallet's history: after a
\* step it is the signature it was or a more recent one (None is before all).
C18_WatermarkMovesForward == [][last_tx_check_sig' >= last_tx_check_sig]_vars

\* C19: under fair scheduling and a fault-free RPC every mint the wallet
\* creates is eventually in the registry.
C19_CreationEventuallyRegistered ==
    \A m \in Mints : (m \in Created(chain)) ~> HasKey(Registry, m)
\* C20: registration leaves every record the registry already holds as it is
\* and adds only reported mints, as monitoring records with no attempts; once
\* the state is loaded no step removes a key or changes a created_at.
C20_RegistrationIdempotent ==
    [][/\ (pc = "register" /\ pc' # pc) =>
            \A m \in Mints :
                /\ HasKey(Registry, m) =>
                        (HasKey(Registry', m) /\ Get(Registry', m) = Get(Registry, m))
                /\ (HasKey(Registry', m) /\ ~HasKey(Registry, m)) =>
                        /\ m \in new_mints
                        /\ Get(Registry', m) = NewRecord(m, now)
                        /\ StatusOf(Registry', m) = "monitoring"
                        /\ AttemptsOf(Registry', m) = 0
       /\ (pc \notin {"load_read", "load_assign"}) =>
            \A m \in Mints :
                HasKey(Registry, m) =>
                    /\ HasKey(Registry', m)
                    /\ Get(Registry', m).created_at = Get(Registry, m).created_at]_vars
\* The first scan has reported a mint that the loaded registry held as
\* sell_failed; no sell has run, and the record is as it was loaded.
C20_Witness ==
    /\ pc = "keys"
    /\ chain = <<"A">>
    /\ last_tx_check_sig = 1
    /\ sell_calls["A"] = 0
    /\ file.kind = "mapping"
    /\ HasKey(Registry, "A")
    /\ StatusOf(Registry, "A") = "sell_failed"
    /\ Registry = JsonLoads(file.doc)
\* C22: a record goes from sell_failed back to monitoring only in an
\* iteration whose trigger evaluation found no sell signal.
C22_ResetOnlyWithoutSignal ==
    [][\A m \in Mints :
        (/\ pc \notin {"load_read", "load_assign"}
         /\ HasKey(Registry, m)
         /\ StatusOf(Registry, m) = "sell_failed"
         /\ StatusOf(Registry', m) = "monitoring")
        => ~C16_SellSignal]_vars

\* C23: with an active signal and attempts left, a minimum output that is not
\* positive ends the iteration without a submission and without counting an
\* attempt.
C23_MinOutSkip ==
    /\ C16_SellSignal
    /\ token_data_copy.sell_attempts.n < MAX_SELL_RETRIES
    /\ MinSolOutputLamports(CurrentValue(dev_balance_lamports, curve_state)) <= 0
C23_NoSellWithoutMinOutput ==
    [][/\ (pc = "store_value" /\ pc' # pc /\ C23_MinOutSkip) =>
            /\ pc' \in {"tok_begin", "reset_minout"}
            /\ AttemptsOf(Registry', mint_str) = AttemptsOf(Registry, mint_str)
            /\ sell_calls' = sell_calls
       /\ (pc = "reset_minout" /\ pc' # pc) =>
            /\ pc' = "tok_begin"
            /\ AttemptsOf(Registry', mint_str) <= AttemptsOf(Registry, mint_str)
            /\ sell_calls' = sell_calls]_vars
\* A monitoring record, old enough, whose holdings are worth nothing, has been
\* skipped: the next iteration starts and no sell was ever called for it.
C23_Witness ==
    /\ pc = "tok_begin"
    /\ idx = 2
    /\ mints_to_process[1] = "A"
    /\ StatusOf(Registry, "A") = "monitoring"
    /\ AttemptsOf(Registry, "A") = 0
    /\ now - Get(Registry, "A").created_at.n >= SELL_DELAY_SECONDS
    /\ Get(Registry, "A").last_value_sol = DecimalStr(0)
    /\ Get(Registry, "A").last_check_time = PyFloat(now)
    /\ sell_calls["A"] = 0

\* C24: when execute_sell is called the attempt has been counted and saved:
\* the file holds the registry's sell_attempts for the mint, one more than the
\* iteration read at its start.
C24_AttemptSavedBeforeSell ==
    pc = "execute_sell" =>
        /\ file.kind = "mapping"
        /\ HasKey(JsonLoads(file.doc), mint_str)
        /\ AttemptsOf(JsonLoads(file.doc), mint_str) = AttemptsOf(Registry, mint_str)
        /\ AttemptsOf(Registry, mint_str) = token_data_copy.sell_attempts.n + 1
C24_Witness ==
    /\ pc = "execute_sell"
    /\ file.kind = "mapping"
    /\ AttemptsOf(JsonLoads(file.doc), mint_str) = 2
    /\ token_data_copy.sell_attempts.n = 1
\* C25: when the pass over a record has changed its status or sell_attempts,
\* the file shows the new values by the time the next record is begun.
C25_MutationSavedBeforeNextRecord ==
    [][(/\ pc' = "tok_begin"
        /\ idx' = idx + 1
        /\ token_data_copy # NoRecord
        /\ \/ StatusOf(Registry', mint_str) # token_data_copy.status.s
           \/ AttemptsOf(Registry', mint_str) # token_data_copy.sell_attempts.n)
       => /\ file'.kind = "mapping"
          /\ HasKey(JsonLoads(file'.doc), mint_str)
          /\ StatusOf(JsonLoads(file'.doc), mint_str) = StatusOf(Registry', mint_str)
          /\ AttemptsOf(JsonLoads(file'.doc), mint_str)
                = AttemptsOf(Registry', mint_str)]_vars

\* C26: a record that is sold, missed, emptied or failed for good is left as
\* it is by every step of the cycle, last_check_time included.
C26_TerminalRecordUntouched ==
    [][\A m \in Mints :
        (/\ pc \notin {"load_read", "load_assign"}
         /\ HasKey(Registry, m)
         /\ StatusOf(Registry, m) \notin ActiveStatuses)
        => Get(Registry', m) = Get(Registry, m)]_vars
\* C27: every record of the registry has between 0 and MAX_SELL_RETRIES
\* attempts, and a record failed for good has used them all.
C27_AttemptsWithinBound ==
    \A m \in Mints :
        HasKey(Registry, m) =>
            /\ AttemptsOf(Registry, m) >= 0
            /\ AttemptsOf(Registry, m) <= MAX_SELL_RETRIES
            /\ StatusOf(Registry, m) = "failed_max_retries"
                    => AttemptsOf(Registry, m) >= MAX_SELL_RETRIES
\* A record registered by this run has failed twice and is failed for good.
C27_Witness ==
    /\ MAX_SELL_RETRIES = 2
    /\ file.kind = "mapping"
    /\ HasKey(Registry, "A")
    /\ StatusOf(Registry, "A") = "failed_max_retries"
    /\ AttemptsOf(Registry, "A") = 2
    /\ sell_calls["A"] = 2
\* C28: the bot never asks for the lock while it holds it: inside its block
\* it is only at positions that write the result and sleep, never at a `with
\* lock`, save_state or load_state; whoever holds the lock can leave its block.
C28_LockRequestPcs ==
    {"load_read", "load_assign", "save_copy", "save_write", "register", "keys",
     "tok_begin", "mark_missed", "mark_emptied", "store_value", "mark_failed_max",
     "reset_minout", "reset", "incr_attempt", "apply_status", "end_iter"}
C28_NoSelfDeadlock ==
    /\ lock = "bot" => pc \in {"apply_tx", "apply_escalate", "retry_sleep"}
    /\ lock = "bot" => pc \notin C28_LockRequestPcs
    /\ lock = "reader" => reader = "in_lock"
    /\ lock # "free" => ENABLED (ReaderExit \/ ApplyTx \/ ApplyEscalate \/ RetrySleep)
\* The bot sleeps inside its block after a failed sell while no reader is in.
C28_Witness ==
    /\ lock = "bot"
    /\ pc = "retry_sleep"
    /\ reader = "idle"
    /\ StatusOf(Registry, mint_str) = "sell_failed"
\* C29: a fetched signature whose transaction was not read is still older
\* than the watermark, so that a later scan returns it again.
C29_UnexaminedStaysBehindWatermark ==
    \A sig \in unexamined : last_tx_check_sig = 0 \/ sig < last_tx_check_sig
\* C30: under fair scheduling and reads that succeed, a record that is old
\* enough to sell and still monitoring or sell_failed eventually reaches a
\* terminal status.
C30_Aged(m) ==
    /\ HasKey(Registry, m)
    /\ StatusOf(Registry, m) \in ActiveStatuses
    /\ now - Get(Registry, m).created_at.n >= SELL_DELAY_SECONDS
C30_Terminal(m) ==
    /\ HasKey(Registry, m)
    /\ StatusOf(Registry, m) \notin ActiveStatuses
C30_AgedRecordEndsTerminal ==
    \A m \in Mints : C30_Aged(m) ~> C30_Terminal(m)
\* C30, amended: it reaches a terminal status unless a later cycle finds its
\* minimum output not positive and skips the sell.
C30_MinOutSkipped(m) ==
    /\ pc = "store_value"
    /\ mint_str = m
    /\ MinSolOutputLamports(CurrentValue(dev_balance_lamports, curve_state)) <= 0
C30_AgedRecordEndsTerminalOrSkips ==
    \A m \in Mints : C30_Aged(m) ~> (C30_Terminal(m) \/ C30_MinOutSkipped(m))
\* A record old enough was sold at its second submission.
C30_Witness ==
    /\ HasKey(Registry, "A")
    /\ StatusOf(Registry, "A") = "sold"
    /\ now - Get(Registry, "A").created_at.n >= SELL_DELAY_SECONDS
    /\ sell_calls["A"] = 2
    /\ pc = "end_iter"
\* C21: an exception never ends the loop: the handler of a record's exception
\* hands over to the next record of the same cycle, the handler of the cycle's
\* exception sleeps and starts a new cycle, and a cycle starts again and again.
C21_FaultsNeverEndLoop ==
    /\ []<>(pc = "scan")
    /\ [][/\ (pc = "inner_except" /\ pc' # pc) =>
                /\ pc' = "tok_begin"
                /\ idx' = idx + 1
                /\ mints_to_process' = mints_to_process
                /\ lock' = "free"
          /\ (pc = "backoff" /\ pc' # pc) => (pc' = "scan" /\ lock' = lock)]_vars
\* The first of two records raised inside the block that holds the lock; the
\* handler runs with the lock released and the second record still to come.
C21_Witness ==
    /\ pc = "inner_except"
    /\ Len(mints_to_process) = 2
    /\ idx = 1
    /\ lock = "free"
    /\ StatusOf(Registry, mint_str) = "sell_failed"
    /\ sell_result # NoResult
====
